---- MODULE Spec2Model ----
(***************************************************************************)
(* A model of the XML deserializer of serde-xml-rs (src/src/lib.rs).       *)
(*                                                                         *)
(* The Deserializer is a cursor over a pull source of XML events: a depth  *)
(* counter, the reader, a one-event lookahead (peeked) and the             *)
(* is_map_value flag.  The destination shape drives the decode: it issues  *)
(* deserialize_* requests, which recurse through the visitors.  Every      *)
(* request is modelled by a recursive operator from a cursor to a result   *)
(* (status, error kind, cursor afterwards, value), computed as the code    *)
(* computes it; every action applies one whole request or one cursor       *)
(* operation to the state.                                                 *)
(*                                                                         *)
(* map.rs, seq.rs, var.rs and error.rs are not among the sources: the      *)
(* visitors and the expect! macros are modelled from the specification.    *)
(***************************************************************************)
EXTENDS Integers, Sequences, FiniteSets, TLC

\* ------------------------------------------------------------------ bounds

\* deepest nesting of the generated nested documents
MaxNest == 3
\* most sibling items of the generated sequence documents
MaxItems == 3
\* largest length of a fixed-size sequence destination
MaxLen == 2

\* ------------------------------------------------------------------ events

\* a qualified name: local name and namespace; equality compares both
QName(l, ns) == [local_name |-> l, namespace |-> ns]

N(l) == QName(l, "")

NoName == QName("", "")

Attr(l, v) == [name |-> N(l), value |-> v]

StartElement(n, as) ==
    [kind |-> "StartElement", name |-> n, attributes |-> as, text |-> ""]

EndElement(n) ==
    [kind |-> "EndElement", name |-> n, attributes |-> <<>>, text |-> ""]

Characters(s) ==
    [kind |-> "Characters", name |-> NoName, attributes |-> <<>>, text |-> s]

StartDocument ==
    [kind |-> "StartDocument", name |-> NoName, attributes |-> <<>>, text |-> ""]

EndDocument ==
    [kind |-> "EndDocument", name |-> NoName, attributes |-> <<>>, text |-> ""]

ProcessingInstruction ==
    [kind |-> "ProcessingInstruction", name |-> NoName, attributes |-> <<>>, text |-> ""]

Comment ==
    [kind |-> "Comment", name |-> NoName, attributes |-> <<>>, text |-> ""]

\* the reader's Err result on malformed input, as an item of the stream
ReaderError ==
    [kind |-> "ReaderError", name |-> NoName, attributes |-> <<>>, text |-> ""]

\* the event kinds inner_next skips
Skipped == {"StartDocument", "EndDocument", "ProcessingInstruction", "Comment"}

\* ------------------------------------------------------------------ documents

Digits == <<"1", "2", "3", "4", "5", "6">>

Wrap(body) == <<StartDocument>> \o body \o <<EndDocument>>

Elem(l, body) == <<StartElement(N(l), <<>>)>> \o body \o <<EndElement(N(l))>>

RECURSIVE Items(_)
Items(n) ==
    IF n = 0 THEN <<>>
    ELSE Items(n - 1) \o Elem("i", <<Characters(Digits[n])>>)

\* <a><i>1</i>...<i>n</i></a>
SeqDoc(n) == Wrap(Elem("a", Items(n)))

RECURSIVE Nested(_)
Nested(k) ==
    IF k = 0 THEN <<Characters("t")>>
    ELSE Elem("x", Nested(k - 1))

\* <a><x><x>..t..</x></x><g>v</g></a>: a subtree k deep and its sibling
NestDoc(k) == Wrap(Elem("a", Elem("x", Nested(k)) \o Elem("g", <<Characters("v")>>)))

\* <a/>
DocEmpty == Wrap(Elem("a", <<>>))

\* <a><f/></a>
DocEmptyChild == Wrap(Elem("a", Elem("f", <<>>)))

\* <a f="1"><f>2</f></a>
DocAttrChild ==
    Wrap(<<StartElement(N("a"), <<Attr("f", "1")>>)>>
         \o Elem("f", <<Characters("2")>>) \o <<EndElement(N("a"))>>)

\* <a g="2" f="1"/>
DocAttrs ==
    Wrap(<<StartElement(N("a"), <<Attr("g", "2"), Attr("f", "1")>>),
           EndElement(N("a"))>>)

\* <s><shape><Empty/></shape></s>: the element shape as a child of a record
DocEmptyVariant == Wrap(Elem("s", Elem("shape", Elem("Empty", <<>>))))

\* <s><shape><Circle>3</Circle></shape></s>
DocCircle == Wrap(Elem("s", Elem("shape", Elem("Circle", <<Characters("3")>>))))

\* <s><shape><Square/></shape></s>
DocSquare == Wrap(Elem("s", Elem("shape", Elem("Square", <<>>))))

\* <?pi?><a><!-- c -->t<f>2</f></a> with the skipped kinds in between
DocNoise ==
    <<StartDocument, ProcessingInstruction, StartElement(N("a"), <<>>), Comment,
      Characters("t"), Comment, ProcessingInstruction>>
    \o Elem("f", <<Characters("2")>>) \o <<EndElement(N("a")), Comment, EndDocument>>

\* <a><f>2 followed by malformed markup
DocBroken ==
    <<StartDocument, StartElement(N("a"), <<>>), StartElement(N("f"), <<>>),
      Characters("2"), ReaderError>>

\* <u:a xmlns:u="u"><f>2</f></u:a>
DocNs ==
    <<StartDocument, StartElement(QName("a", "u"), <<>>)>>
    \o Elem("f", <<Characters("2")>>) \o <<EndElement(QName("a", "u")), EndDocument>>

Docs ==
    {DocEmpty, DocEmptyChild, DocAttrChild, DocAttrs, DocEmptyVariant, DocCircle,
     DocSquare, DocNoise, DocBroken, DocNs}
    \cup {SeqDoc(n) : n \in 1..MaxItems}
    \cup {NestDoc(k) : k \in 0..MaxNest}

\* the names expect_end_element is asked for
Names == {N("a"), N("f"), N("i"), N("x"), N("shape"), QName("a", "u")}

\* ------------------------------------------------------------------ state

VARIABLES
    doc,            \* the event stream the reader delivers
    reader,         \* the reader: index of the next event it will deliver
    depth,          \* Deserializer.depth
    peeked,         \* Deserializer.peeked: <<>> (None) or <<event>> (Some)
    is_map_value,   \* Deserializer.is_map_value
    taken,          \* history: the events returned by next(), in order
    last,           \* the last operation: name, argument, cursor before, result
    pc              \* "idle", or the point a request traced step by step is at

vars == <<doc, reader, depth, peeked, is_map_value, taken, last, pc>>

\* the cursor as a value the operators below pass along.  errors is a history
\* of the request being decoded: for every error raised in it, the number of
\* events taken and the place of the reader when it was raised.
Cursor ==
    [reader |-> reader, depth |-> depth, peeked |-> peeked,
     is_map_value |-> is_map_value, taken |-> taken, errors |-> <<>>]

NoValue == [t |-> "-"]

Ok(c, v) == [st |-> "ok", kind |-> "", c |-> c, v |-> v]

\* an Err raised at that cursor
Err(c, k) ==
    [st |-> "err", kind |-> k,
     c |-> [c EXCEPT !.errors = Append(@, <<Len(c.taken), c.reader>>)],
     v |-> NoValue]

\* a failed debug_expect!: the internal assertion aborts the program
Panic(c) == [st |-> "panic", kind |-> "debug_expect", c |-> c, v |-> NoValue]

\* a call that never returns: the loop of inner_next going on for ever
Hang(c) == [st |-> "hang", kind |-> "inner_next", c |-> c, v |-> NoValue]

\* ------------------------------------------------------------------ values

StrV(s) == [t |-> "str", s |-> s]

IntV(n) == [t |-> "int", n |-> n]

UnitV == [t |-> "unit"]

SomeV(v) == [t |-> "some", v |-> v]

NoneV == [t |-> "None"]

SeqV(items) == [t |-> "seq", items |-> items]

MapV(entries) == [t |-> "map", entries |-> entries]

VariantV(name, v) == [t |-> "variant", name |-> name, v |-> v]

\* ------------------------------------------------------------------ shapes

\* the destination shapes; each issues the request named in its k field
TString == [k |-> "string"]

TInt == [k |-> "i32"]

TUnit == [k |-> "unit"]

TOption(of) == [k |-> "option", of |-> of]

TSeq(of) == [k |-> "seq", of |-> of]

TTuple(of, len) == [k |-> "tuple", of |-> of, len |-> len]

Field(name, ty) == [name |-> name, ty |-> ty]

TStruct(fields) == [k |-> "struct", fields |-> fields]

TMap(of) == [k |-> "map", of |-> of]

TEnum(variants) == [k |-> "enum", variants |-> variants]

TIgnored == [k |-> "ignored_any"]

TAny == [k |-> "any"]

\* ------------------------------------------------------------------ cursor

\* the ? operator and the early returns of the code: a result that is not Ok
\* is returned as it is, an Ok one is handed on
Then(r, K(_)) == IF r.st # "ok" THEN r ELSE K(r)

RECURSIVE inner_next(_)

\* inner_next returning whatever the reader delivers
inner_next_NoSkip(c) ==
    IF c.reader > Len(doc) THEN Hang(c)
    ELSE IF doc[c.reader].kind = "ReaderError" THEN Err(c, "Syntax")
    ELSE Ok([c EXCEPT !.reader = @ + 1], doc[c.reader])

\* Deserializer::inner_next: the next event of the reader that is not of a
\* skipped kind.  The reader's Err becomes Error::Syntax.  reader.next()
\* returns Result<XmlEvent>: it has no end-of-stream result.  Once the reader
\* has delivered its final event, EndDocument or an error, every further call
\* delivers that event again: the error is returned each time, while the
\* EndDocument is skipped each time, so that the loop never ends.
inner_next(c) ==
    IF c.reader > Len(doc) THEN Hang(c)
    ELSE IF doc[c.reader].kind = "ReaderError" THEN Err(c, "Syntax")
    ELSE IF doc[c.reader].kind \in Skipped
    THEN inner_next([c EXCEPT !.reader = @ + 1])
    ELSE Ok([c EXCEPT !.reader = @ + 1], doc[c.reader])

\* peek returning a fresh event without keeping it
peek_NotCaching(c) ==
    IF c.peeked = <<>> THEN inner_next(c) ELSE Ok(c, c.peeked[1])

\* Deserializer::peek: fills the lookahead if it is empty, returns it
peek(c) ==
    IF c.peeked = <<>>
    THEN Then(inner_next(c), LAMBDA r : Ok([r.c EXCEPT !.peeked = <<r.v>>], r.v))
    ELSE Ok(c, c.peeked[1])

\* Count leaving depth as it is at an EndElement
Count_NoDecrement(r) ==
    IF r.v.kind = "StartElement"
    THEN Ok([r.c EXCEPT !.depth = @ + 1, !.taken = Append(@, r.v)], r.v)
    ELSE Ok([r.c EXCEPT !.taken = Append(@, r.v)], r.v)

\* the depth bookkeeping of next.  depth is a usize: an EndElement at depth 0
\* overflows the subtraction.
Count(r) ==
    IF r.v.kind = "StartElement"
    THEN Ok([r.c EXCEPT !.depth = @ + 1, !.taken = Append(@, r.v)], r.v)
    ELSE IF r.v.kind = "EndElement"
    THEN IF r.c.depth = 0
         THEN [st |-> "panic", kind |-> "depth_overflow", c |-> r.c, v |-> NoValue]
         ELSE Ok([r.c EXCEPT !.depth = @ - 1, !.taken = Append(@, r.v)], r.v)
    ELSE Ok([r.c EXCEPT !.taken = Append(@, r.v)], r.v)

\* Deserializer::next: takes the lookahead or a fresh event, updates depth
next(c) ==
    Then(IF c.peeked # <<>>
         THEN Ok([c EXCEPT !.peeked = <<>>], c.peeked[1])
         ELSE inner_next(c),
         Count)

\* Deserializer::set_map_value
set_map_value(c) == [c EXCEPT !.is_map_value = TRUE]

\* unset_map_value leaving the flag set
unset_map_value_Keeping(c) == c

\* Deserializer::unset_map_value: mem::replace(&mut is_map_value, false);
\* the cursor afterwards (the value returned is the flag before)
unset_map_value(c) == [c EXCEPT !.is_map_value = FALSE]

\* NameEq comparing the local names only
NameEq_LocalNameOnly(a, b) == a.local_name = b.local_name

\* the comparison of two qualified names in expect_end_element
NameEq(a, b) == a = b

\* EndMatches checking the name of an end tag but not the kind of the event
EndMatches_AnyEvent(n, start_name) ==
    IF n.v.kind = "EndElement" /\ ~NameEq(n.v.name, start_name)
    THEN Err(n.c, "Custom")
    ELSE Ok(n.c, UnitV)

\* the match of expect_end_element on the event it took
EndMatches(n, start_name) ==
    IF n.v.kind = "EndElement"
    THEN IF NameEq(n.v.name, start_name)
         THEN Ok(n.c, UnitV)
         ELSE Err(n.c, "Custom")
    ELSE Err(n.c, "UnexpectedToken")

\* Deserializer::expect_end_element
expect_end_element(c, start_name) ==
    Then(next(c), LAMBDA n : EndMatches(n, start_name))

\* the destination's scalar parser, run on the text the visitor is handed
ParseInt(s) ==
    IF \E d \in 1..Len(Digits) : Digits[d] = s
    THEN IntV(CHOOSE d \in 1..Len(Digits) : Digits[d] = s)
    ELSE NoValue

\* visitor.visit_str / visit_string of a scalar destination
VisitText(c, as, s) ==
    IF as = "i32"
    THEN IF ParseInt(s) = NoValue THEN Err(c, "Conversion") ELSE Ok(c, ParseInt(s))
    ELSE Ok(c, StrV(s))

\* a result with its value replaced
WithValue(r, v) == Ok(r.c, v)

\* ------------------------------------------------------------------ requests

RECURSIVE Deserialize(_, _)
RECURSIVE IgnoreLoop(_, _), VisitFields(_, _, _, _, _, _), VisitEntries(_, _, _)
RECURSIVE VisitItems(_, _, _, _, _, _), AttrEntries(_, _, _, _), AttrValue(_, _, _)

\* StringAfterPeek without the empty text at an EndElement
StringAfterPeek_NoEmpty(p, as) ==
    Then(next(p.c),
         LAMBDA n : IF n.v.kind = "Characters"
                    THEN VisitText(n.c, as, n.v.text)
                    ELSE Err(n.c, "UnexpectedToken"))

\* the body of the closure of deserialize_string once it has peeked
StringAfterPeek(p, as) ==
    IF p.v.kind = "EndElement" THEN VisitText(p.c, as, "")
    ELSE Then(next(p.c),
              LAMBDA n : IF n.v.kind = "Characters"
                         THEN VisitText(n.c, as, n.v.text)
                         ELSE Err(n.c, "UnexpectedToken"))

\* the closure of deserialize_string
StringBody(c, as) == Then(peek(c), LAMBDA p : StringAfterPeek(p, as))

\* the closure of deserialize_unit
UnitBody(c) ==
    Then(peek(c),
         LAMBDA p : IF p.v.kind = "EndElement" THEN Ok(p.c, UnitV)
                    ELSE Err(p.c, "UnexpectedToken"))

\* visitor.visit_some(this): the destination decodes the inner shape
SomeBody(c, of) == Then(Deserialize(of, c), LAMBDA r : WithValue(r, SomeV(r.v)))

\* index of the declared variant with that name, 0 if none
VariantIndex(variants, name) ==
    IF \E j \in 1..Len(variants) : variants[j].name = name
    THEN CHOOSE j \in 1..Len(variants) : variants[j].name = name
    ELSE 0

\* the variant the peeked tag selects, and its payload request, which reads
\* that element (announced with set_map_value)
VariantAfterPeek(p, variants, j) ==
    IF p.v.kind # "StartElement" THEN Err(p.c, "UnexpectedToken")
    ELSE IF j = 0 THEN Err(p.c, "UnknownVariant")
    ELSE Then(Deserialize(variants[j].ty, set_map_value(p.c)),
              LAMBDA r : WithValue(r, VariantV(variants[j].name, r.v)))

\* EnumVisitor: the tag of the next StartElement selects the variant
visit_enum(c, variants) ==
    Then(peek(c),
         LAMBDA p : VariantAfterPeek(p, variants,
                                     VariantIndex(variants, p.v.name.local_name)))

\* the closures handed to read_inner_value
InnerBody(body, c) ==
    CASE body.b = "string" -> StringBody(c, body.as)
      [] body.b = "unit" -> UnitBody(c)
      [] body.b = "some" -> SomeBody(c, body.of)
      [] body.b = "enum" -> visit_enum(c, body.variants)

\* the flagged branch of read_inner_value once next has returned: the event
\* must be a StartElement (debug_expect!); the body is decoded and the end tag
\* matching that element required
InnerAfterStart(n, body) ==
    IF n.st = "hang" THEN n
    ELSE IF n.st # "ok" \/ n.v.kind # "StartElement" THEN Panic(n.c)
    ELSE Then(InnerBody(body, n.c),
              LAMBDA result : Then(expect_end_element(result.c, n.v.name),
                                   LAMBDA e : WithValue(e, result.v)))

\* read_inner_value leaving the flag as it found it
read_inner_value_NotClearing(c, body) ==
    IF c.is_map_value
    THEN InnerAfterStart(next(c), body)
    ELSE InnerBody(body, c)

\* read_inner_value with the two branches exchanged
read_inner_value_Inverted(c, body) ==
    IF ~c.is_map_value
    THEN InnerAfterStart(next(unset_map_value(c)), body)
    ELSE InnerBody(body, unset_map_value(c))

\* Deserializer::read_inner_value
read_inner_value(c, body) ==
    IF c.is_map_value
    THEN InnerAfterStart(next(unset_map_value(c)), body)
    ELSE InnerBody(body, unset_map_value(c))

deserialize_string(c, as) == read_inner_value(c, [b |-> "string", as |-> as])

deserialize_unit(c) == read_inner_value(c, [b |-> "unit"])

\* deserialize_enum decoding in place whatever the flag says
deserialize_enum_InPlace(c, variants) == visit_enum(unset_map_value(c), variants)

deserialize_enum(c, variants) ==
    read_inner_value(c, [b |-> "enum", variants |-> variants])

\* an error of the inner decode turned into a value
Recovered(r) == IF r.st = "err" THEN Ok(r.c, NoneV) ELSE r

\* deserialize_option answering None when the inner decode fails
deserialize_option_Recovering(c, of) ==
    IF c.is_map_value
    THEN read_inner_value(c, [b |-> "some", of |-> of])
    ELSE Then(peek(c),
              LAMBDA p : IF p.v.kind = "EndElement" THEN Ok(p.c, NoneV)
                         ELSE Recovered(SomeBody(p.c, of)))

\* deserialize_option taking the event it should only peek at
deserialize_option_Taking(c, of) ==
    IF c.is_map_value
    THEN read_inner_value(c, [b |-> "some", of |-> of])
    ELSE Then(next(c),
              LAMBDA p : IF p.v.kind = "EndElement" THEN Ok(p.c, NoneV)
                         ELSE SomeBody(p.c, of))

deserialize_option(c, of) ==
    IF c.is_map_value
    THEN read_inner_value(c, [b |-> "some", of |-> of])
    ELSE Then(peek(c),
              LAMBDA p : IF p.v.kind = "EndElement" THEN Ok(p.c, NoneV)
                         ELSE SomeBody(p.c, of))

\* IgnoreLoop leaving after the first event
IgnoreLoop_Once(c, d) == Then(next(c), LAMBDA n : Ok(n.c, UnitV))

\* the loop of deserialize_ignored_any
IgnoreLoop(c, d) ==
    Then(next(c),
         LAMBDA n : IF n.c.depth = d THEN Ok(n.c, UnitV) ELSE IgnoreLoop(n.c, d))

deserialize_ignored_any(c) == IgnoreLoop(unset_map_value(c), c.depth)

\* fields.contains(&"$value")
HasValueField(fields) == \E i \in 1..Len(fields) : fields[i].name = "$value"

\* RecordAfterStart returning without the end tag
RecordAfterStart_NoEnd(n, fields, of, keyed) ==
    IF n.v.kind # "StartElement" THEN Err(n.c, "UnexpectedToken")
    ELSE IF keyed
    THEN AttrEntries(n.c, n.v.attributes, of, <<>>)
    ELSE VisitFields(n.c, n.v.attributes, fields, 1, <<>>, HasValueField(fields))

\* RecordAfterStart handing the visitor no attributes
RecordAfterStart_NoAttributes(n, fields, of, keyed) ==
    IF n.v.kind # "StartElement" THEN Err(n.c, "UnexpectedToken")
    ELSE Then(IF keyed
              THEN AttrEntries(n.c, <<>>, of, <<>>)
              ELSE VisitFields(n.c, <<>>, fields, 1, <<>>, HasValueField(fields)),
              LAMBDA m : Then(expect_end_element(m.c, n.v.name),
                              LAMBDA e : WithValue(e, m.v)))

\* what deserialize_struct and deserialize_map do with the event they took:
\* it must be a StartElement; the visitor runs, then the end tag is required
RecordAfterStart(n, fields, of, keyed) ==
    IF n.v.kind # "StartElement" THEN Err(n.c, "UnexpectedToken")
    ELSE Then(IF keyed
              THEN AttrEntries(n.c, n.v.attributes, of, <<>>)
              ELSE VisitFields(n.c, n.v.attributes, fields, 1, <<>>,
                               HasValueField(fields)),
              LAMBDA m : Then(expect_end_element(m.c, n.v.name),
                              LAMBDA e : WithValue(e, m.v)))

deserialize_struct(c, fields) ==
    Then(next(unset_map_value(c)),
         LAMBDA n : RecordAfterStart(n, fields, TAny, FALSE))

deserialize_map(c, of) ==
    Then(next(unset_map_value(c)),
         LAMBDA n : RecordAfterStart(n, <<>>, of, TRUE))

\* deserialize reading a scalar whatever the peeked event is
deserialize_any_AlwaysScalar(c) == deserialize_string(c, "string")

\* Deserializer::deserialize: the untyped request
deserialize_any(c) ==
    Then(peek(c),
         LAMBDA p : IF p.v.kind = "StartElement" THEN deserialize_map(p.c, TAny)
                    ELSE IF p.v.kind = "EndElement" THEN deserialize_unit(p.c)
                    ELSE deserialize_string(p.c, "string"))

\* ------------------------------------------------------------------ visitors

\* an attribute's text handed to the destination of a field: scalars parse the
\* text, an Option is always Some of it, nothing else can be read from a text
AttrValue(ty, text, c) ==
    CASE ty.k \in {"string", "i32"} -> VisitText(c, ty.k, text)
      [] ty.k = "option" ->
            Then(AttrValue(ty.of, text, c), LAMBDA r : WithValue(r, SomeV(r.v)))
      [] OTHER -> Err(c, "InvalidType")

\* index of the first attribute of the pool with that local name, 0 if none
FirstAttr(pool, name) ==
    IF \E j \in 1..Len(pool) : pool[j].name.local_name = name
    THEN CHOOSE j \in 1..Len(pool) :
            /\ pool[j].name.local_name = name
            /\ \A h \in 1..(j - 1) : pool[h].name.local_name # name
    ELSE 0

RemoveAt(pool, j) == SubSeq(pool, 1, j - 1) \o SubSeq(pool, j + 1, Len(pool))

Entry(key, v) == [key |-> key, v |-> v]

\* the position a field request starts at when no attribute answers it: a
\* StartElement is announced with set_map_value unless the record has a
\* catch-all
ChildPosition(p, inner_value) ==
    IF ~inner_value /\ p.v.kind = "StartElement" THEN set_map_value(p.c) ELSE p.c

\* one field request: from the attribute pool (j # 0) or from the next child
FieldValue(c, pool, f, j, inner_value) ==
    IF j # 0 THEN AttrValue(f.ty, pool[j].value, c)
    ELSE Then(peek(c), LAMBDA p : Deserialize(f.ty, ChildPosition(p, inner_value)))

\* the pool after a field request: a consumed attribute is removed
PoolAfter(pool, j) == IF j # 0 THEN RemoveAt(pool, j) ELSE pool

\* MapVisitor, driven by the declared fields of a record.  Each field request
\* is answered from the attribute pool first (first match, removed once
\* consumed); with no match the request goes to the next child position and
\* the field's shape is decoded there.
VisitFields(c, pool, fields, i, acc, inner_value) ==
    IF i > Len(fields) THEN Ok(c, MapV(acc))
    ELSE Then(FieldValue(c, pool, fields[i], FirstAttr(pool, fields[i].name),
                         inner_value),
              LAMBDA r : VisitFields(r.c,
                                     PoolAfter(pool, FirstAttr(pool, fields[i].name)),
                                     fields, i + 1,
                                     Append(acc, Entry(fields[i].name, r.v)),
                                     inner_value))

\* the key and the position of the next entry of a map destination
EntryKey(p) == IF p.v.kind = "StartElement" THEN p.v.name.local_name ELSE "$value"

\* MapVisitor, driven by the document for a map destination: one entry per
\* child until peek returns something that is neither a StartElement nor text
VisitEntries(c, of, acc) ==
    Then(peek(c),
         LAMBDA p :
            IF p.v.kind \in {"StartElement", "Characters"}
            THEN Then(Deserialize(of, ChildPosition(p, FALSE)),
                      LAMBDA r : VisitEntries(r.c, of,
                                              Append(acc, Entry(EntryKey(p), r.v))))
            ELSE Ok(p.c, MapV(acc)))

\* the attributes of a map destination come first, in order, then the children
AttrEntries(c, attrs, of, acc) ==
    IF attrs = <<>> THEN VisitEntries(c, of, acc)
    ELSE AttrEntries(c, Tail(attrs), of,
                     Append(acc, Entry(Head(attrs).name.local_name,
                                       StrV(Head(attrs).value))))

\* SeqVisitor::new: a sequence announced with set_map_value is a run of
\* siblings sharing the tag of the first one, which must be there
\* (debug_expect!); the value of the result is expected_name
ExpectedName(p) ==
    IF p.st = "hang" THEN p
    ELSE IF p.st # "ok" \/ p.v.kind # "StartElement" THEN Panic(p.c)
    ELSE Ok(p.c, <<p.v.name>>)

SeqVisitorNew(c) ==
    IF c.is_map_value
    THEN ExpectedName(peek(unset_map_value(c)))
    ELSE Ok(unset_map_value(c), <<>>)

\* is the peeked event one more item?
MoreItems(p, expected_name) ==
    IF expected_name # <<>>
    THEN IF p.v.kind = "StartElement" /\ p.v.name = expected_name[1]
         THEN Ok(set_map_value(p.c), TRUE)
         ELSE Ok(p.c, FALSE)
    ELSE Ok(p.c, p.v.kind # "EndElement")

\* SeqVisitor::visit: is there one more item?  max_size < 0 stands for None.
SeqVisit(c, max_size, expected_name) ==
    IF max_size = 0 THEN Ok(c, FALSE)
    ELSE Then(peek(c), LAMBDA p : MoreItems(p, expected_name))

\* the destination of a sequence: a variable-length one (want < 0) takes items
\* until the visitor has no more; a fixed-size one takes exactly want items
\* and reports a wrong length when the visitor ends before
VisitItems(c, of, max_size, expected_name, acc, want) ==
    IF want >= 0 /\ Len(acc) = want THEN Ok(c, SeqV(acc))
    ELSE Then(SeqVisit(c, max_size, expected_name),
              LAMBDA s :
                 IF ~s.v
                 THEN IF want >= 0 THEN Err(s.c, "LengthMismatch")
                      ELSE Ok(s.c, SeqV(acc))
                 ELSE Then(Deserialize(of, s.c),
                           LAMBDA r : VisitItems(r.c, of,
                                         IF max_size < 0 THEN max_size
                                         ELSE max_size - 1,
                                         expected_name, Append(acc, r.v), want)))

deserialize_seq(c, of) ==
    Then(SeqVisitorNew(c),
         LAMBDA v : VisitItems(v.c, of, -1, v.v, <<>>, -1))

\* deserialize_seq_fixed_size handing the visitor no size
deserialize_seq_fixed_size_Unbounded(c, of, len) ==
    Then(SeqVisitorNew(c),
         LAMBDA v : VisitItems(v.c, of, -1, v.v, <<>>, -1))

deserialize_seq_fixed_size(c, of, len) ==
    Then(SeqVisitorNew(c),
         LAMBDA v : VisitItems(v.c, of, len, v.v, <<>>, len))

\* T::deserialize(de): the destination shape issues its request
Deserialize(ty, c) ==
    CASE ty.k = "string" -> deserialize_string(c, "string")
      [] ty.k = "i32" -> deserialize_string(c, "i32")
      [] ty.k = "unit" -> deserialize_unit(c)
      [] ty.k = "option" -> deserialize_option(c, ty.of)
      [] ty.k = "seq" -> deserialize_seq(c, ty.of)
      [] ty.k = "tuple" -> deserialize_seq_fixed_size(c, ty.of, ty.len)
      [] ty.k = "struct" -> deserialize_struct(c, ty.fields)
      [] ty.k = "map" -> deserialize_map(c, ty.of)
      [] ty.k = "enum" -> deserialize_enum(c, ty.variants)
      [] ty.k = "ignored_any" -> deserialize_ignored_any(c)
      [] ty.k = "any" -> deserialize_any(c)

\* ------------------------------------------------------------------ inputs

\* variants {Circle(int), Empty}
ShapeVariants == <<Field("Circle", TInt), Field("Empty", TUnit)>>

\* variants named after elements of the documents, with payloads of each kind
ElementVariants ==
    <<Field("a", TAny), Field("f", TString), Field("x", TIgnored),
      Field("i", TInt), Field("shape", TStruct(<<>>))>>

EnumShapes == {ShapeVariants, ElementVariants}

OptionShapes == {TString, TInt, TUnit, TAny, TEnum(ShapeVariants)}

ItemShapes == {TInt, TString, TAny}

StructShapes ==
    {<<>>,
     <<Field("f", TString)>>,
     <<Field("f", TString), Field("f", TString)>>,
     <<Field("f", TOption(TString))>>,
     <<Field("f", TInt), Field("g", TInt)>>,
     <<Field("g", TInt), Field("f", TInt), Field("h", TOption(TInt))>>,
     <<Field("f", TString), Field("$value", TAny)>>,
     <<Field("$value", TString), Field("f", TAny)>>,
     <<Field("i", TSeq(TInt))>>,
     <<Field("x", TIgnored), Field("g", TString)>>,
     <<Field("x", TIgnored)>>,
     <<Field("shape", TEnum(ShapeVariants))>>,
     <<Field("f", TUnit)>>}
    \cup {<<Field("i", TTuple(TInt, len))>> : len \in 0..MaxLen}

\* ------------------------------------------------------------------ actions

Init ==
    /\ doc \in Docs
    /\ reader = 1
    /\ depth = 0
    /\ peeked = <<>>
    /\ is_map_value = FALSE
    /\ taken = <<>>
    /\ last = [op |-> "new", arg |-> NoValue, pre |-> [reader |-> 1, depth |-> 0,
               peeked |-> <<>>, is_map_value |-> FALSE, taken |-> <<>>,
               errors |-> <<>>],
               st |-> "ok", kind |-> "", v |-> NoValue, errors |-> <<>>]
    /\ pc = "idle"

\* the state after an operation that returned r; nothing follows a failed
\* assertion or a call that does not return
Apply(op, arg, r) ==
    /\ pc = "idle"
    /\ last.st \notin {"panic", "hang"}
    /\ UNCHANGED pc
    /\ reader' = r.c.reader
    /\ depth' = r.c.depth
    /\ peeked' = r.c.peeked
    /\ is_map_value' = r.c.is_map_value
    /\ taken' = r.c.taken
    /\ last' = [op |-> op, arg |-> arg, pre |-> Cursor,
                st |-> r.st, kind |-> r.kind, v |-> r.v, errors |-> r.c.errors]
    /\ UNCHANGED doc

Peek == Apply("peek", NoValue, peek(Cursor))

NextEvent == Apply("next", NoValue, next(Cursor))

ExpectEndElement ==
    \E n \in Names : Apply("expect_end_element", n, expect_end_element(Cursor, n))

\* the visitors call set_map_value right after peeking a StartElement
SetMapValue ==
    /\ peeked # <<>>
    /\ peeked[1].kind = "StartElement"
    /\ Apply("set_map_value", NoValue, Ok(set_map_value(Cursor), NoValue))

UnsetMapValue ==
    Apply("unset_map_value", NoValue, Ok(unset_map_value(Cursor), NoValue))

DeserializeString == Apply("deserialize_string", TString, Deserialize(TString, Cursor))

DeserializeI32 == Apply("deserialize_i32", TInt, Deserialize(TInt, Cursor))

DeserializeUnit == Apply("deserialize_unit", TUnit, Deserialize(TUnit, Cursor))

DeserializeOption ==
    \E of \in OptionShapes :
        Apply("deserialize_option", TOption(of), Deserialize(TOption(of), Cursor))

DeserializeStruct ==
    \E fields \in StructShapes :
        Apply("deserialize_struct", TStruct(fields), Deserialize(TStruct(fields), Cursor))

DeserializeMap ==
    \E of \in {TString, TAny} :
        Apply("deserialize_map", TMap(of), Deserialize(TMap(of), Cursor))

DeserializeEnum ==
    \E variants \in EnumShapes :
        Apply("deserialize_enum", TEnum(variants), Deserialize(TEnum(variants), Cursor))

DeserializeSeq ==
    \E of \in ItemShapes :
        Apply("deserialize_seq", TSeq(of), Deserialize(TSeq(of), Cursor))

DeserializeSeqFixedSize ==
    \E of \in ItemShapes, len \in 0..MaxLen :
        Apply("deserialize_seq_fixed_size", TTuple(of, len),
              Deserialize(TTuple(of, len), Cursor))

DeserializeIgnoredAny ==
    Apply("deserialize_ignored_any", TIgnored, Deserialize(TIgnored, Cursor))

DeserializeAny == Apply("deserialize", TAny, Deserialize(TAny, Cursor))

Next ==
    \/ Peek
    \/ NextEvent
    \/ ExpectEndElement
    \/ SetMapValue
    \/ UnsetMapValue
    \/ DeserializeString
    \/ DeserializeI32
    \/ DeserializeUnit
    \/ DeserializeOption
    \/ DeserializeStruct
    \/ DeserializeMap
    \/ DeserializeEnum
    \/ DeserializeSeq
    \/ DeserializeSeqFixedSize
    \/ DeserializeIgnoredAny
    \/ DeserializeAny

Spec == Init /\ [][Next]_vars

\* what a program using the crate can do with a Deserializer: issue requests
\* and call unset_map_value.  peek, next, expect_end_element and set_map_value
\* are private.
PublicNext ==
    \/ UnsetMapValue
    \/ DeserializeString
    \/ DeserializeI32
    \/ DeserializeUnit
    \/ DeserializeOption
    \/ DeserializeStruct
    \/ DeserializeMap
    \/ DeserializeEnum
    \/ DeserializeSeq
    \/ DeserializeSeqFixedSize
    \/ DeserializeIgnoredAny
    \/ DeserializeAny

PublicSpec == Init /\ [][PublicNext]_vars

\* ------------------------------------------------------------------ steps

\* deserialize_ignored_any traced step by step, down to the calls of the
\* reader; last holds the request (st "running"), the depth at entry
\* (pre.depth) and the event in hand (v)

\* what reader.next() returns: once the final event has been delivered, that
\* event again
ReaderEvent == doc[IF reader > Len(doc) THEN Len(doc) ELSE reader]

\* self.unset_map_value(); let depth = self.depth;
IgnoreEnter ==
    /\ pc = "idle"
    /\ last.st \notin {"panic", "hang"}
    /\ pc' = "loop"
    /\ is_map_value' = FALSE
    /\ last' = [op |-> "deserialize_ignored_any", arg |-> TIgnored, pre |-> Cursor,
                st |-> "running", kind |-> "", v |-> NoValue, errors |-> <<>>]
    /\ UNCHANGED <<doc, reader, depth, peeked, taken>>

\* loop { self.next() ...: next takes the lookahead, or calls inner_next
IgnoreTake ==
    /\ pc = "loop"
    /\ IF peeked # <<>>
       THEN /\ last' = [last EXCEPT !.v = peeked[1]]
            /\ peeked' = <<>>
            /\ pc' = "count"
       ELSE /\ pc' = "reader"
            /\ UNCHANGED <<last, peeked>>
    /\ UNCHANGED <<doc, reader, depth, is_map_value, taken>>

\* inner_next: self.reader.next().map_err(Error::Syntax)?
ReaderNext ==
    /\ pc = "reader"
    /\ IF ReaderEvent.kind = "ReaderError"
       THEN /\ last' = [last EXCEPT !.st = "err", !.kind = "Syntax", !.v = NoValue,
                                    !.errors = <<<<Len(taken), reader>>>>]
            /\ pc' = "idle"
            /\ UNCHANGED reader
       ELSE /\ last' = [last EXCEPT !.v = ReaderEvent]
            /\ reader' = IF reader > Len(doc) THEN reader ELSE reader + 1
            /\ pc' = "match"
    /\ UNCHANGED <<doc, depth, peeked, is_map_value, taken>>

\* inner_next: the match on the event; a skipped kind goes round the loop
InnerMatch ==
    /\ pc = "match"
    /\ pc' = IF last.v.kind \in Skipped THEN "reader" ELSE "count"
    /\ UNCHANGED <<doc, reader, depth, peeked, is_map_value, taken, last>>

\* next: the depth bookkeeping; then if self.depth == depth { break }
IgnoreCount ==
    /\ pc = "count"
    /\ depth' = Count([c |-> Cursor, v |-> last.v]).c.depth
    /\ taken' = Append(taken, last.v)
    /\ IF depth' = last.pre.depth
       THEN pc' = "idle" /\ last' = [last EXCEPT !.st = "ok", !.v = UnitV]
       ELSE pc' = "loop" /\ UNCHANGED last
    /\ UNCHANGED <<doc, reader, peeked, is_map_value>>

IgnoreNext ==
    \/ Peek
    \/ NextEvent
    \/ IgnoreEnter
    \/ IgnoreTake
    \/ ReaderNext
    \/ InnerMatch
    \/ IgnoreCount

\* the program is sequential and synchronous: a request that has been entered
\* goes on taking its steps
IgnoreSpec ==
    /\ Init
    /\ [][IgnoreNext]_vars
    /\ WF_vars(IgnoreTake)
    /\ WF_vars(ReaderNext)
    /\ WF_vars(InnerMatch)
    /\ WF_vars(IgnoreCount)

\* ------------------------------------------------------------------ observations

\* index of the first event at or after i that inner_next does not skip
\* (Len(doc) + 1 when there is none)
FirstRelevant(i) ==
    IF \E j \in i..Len(doc) : doc[j].kind \notin Skipped
    THEN CHOOSE j \in i..Len(doc) :
            /\ doc[j].kind \notin Skipped
            /\ \A h \in i..(j - 1) : doc[h].kind \in Skipped
    ELSE Len(doc) + 1

\* index in the stream of the event a cursor delivers next
NextIdx(c) == IF c.peeked # <<>> THEN c.reader - 1 ELSE FirstRelevant(c.reader)

\* the source has an event for that cursor (neither its end nor an error)
HasEvent(c) == NextIdx(c) <= Len(doc) /\ doc[NextIdx(c)].kind # "ReaderError"

\* the event a cursor delivers next
NextEv(c) == doc[NextIdx(c)]

\* the source has delivered its last event (the final EndDocument aside)
AtEnd(c) == NextIdx(c) > Len(doc)

\* the events the last operation consumed
New == SubSeq(taken, Len(last.pre.taken) + 1, Len(taken))

Consumed == Len(taken) - Len(last.pre.taken)

\* StartElements minus EndElements among the first k events of a sequence
RECURSIVE Balance(_, _)
Balance(seq, k) ==
    IF k = 0 THEN 0
    ELSE Balance(seq, k - 1)
         + (IF seq[k].kind = "StartElement" THEN 1
            ELSE IF seq[k].kind = "EndElement" THEN -1 ELSE 0)

\* the sequence is exactly one element: its start tag, its content, its end tag
IsOneElement(seq) ==
    /\ Len(seq) >= 2
    /\ seq[1].kind = "StartElement"
    /\ seq[Len(seq)] = EndElement(seq[1].name)
    /\ Balance(seq, Len(seq)) = 0
    /\ \A k \in 1..(Len(seq) - 1) : Balance(seq, k) > 0

\* the sequence is exactly one child: one element or one text event
IsOneNode(seq) == IsOneElement(seq) \/ (Len(seq) = 1 /\ seq[1].kind = "Characters")

\* the cursor is as the last operation found it, lookahead aside
NothingConsumed ==
    /\ taken = last.pre.taken
    /\ depth = last.pre.depth
    /\ NextIdx(Cursor) = NextIdx(last.pre)

\* ------------------------------------------------------------------ claims

\* C1: expect_end_element(n) consumes exactly one event, the cached lookahead
\* if there is one and a fresh event of the source otherwise, and succeeds if
\* and only if that event is an EndElement whose qualified name equals n; any
\* other event makes it return an error.  (When the source has no event to
\* give, nothing is consumed: the source's error is returned, and at the end
\* of the document the call does not return.)
C1_ExpectEnd ==
    last.op = "expect_end_element" =>
        IF HasEvent(last.pre)
        THEN /\ New = <<NextEv(last.pre)>>
             /\ peeked = <<>>
             /\ last.pre.peeked # <<>> =>
                    /\ New = last.pre.peeked
                    /\ reader = last.pre.reader
             /\ last.pre.peeked = <<>> => reader = NextIdx(last.pre) + 1
             /\ last.st \in {"ok", "err"}
             /\ last.st = "ok" <=> NextEv(last.pre) = EndElement(last.arg)
        ELSE /\ last.st = (IF AtEnd(last.pre) THEN "hang" ELSE "err")
             /\ NothingConsumed

\* expect_end_element has succeeded on a cached lookahead
C1_Witness ==
    /\ last.op = "expect_end_element"
    /\ last.st = "ok"
    /\ last.pre.peeked # <<>>

\* the reads that go through read_inner_value with a scalar, unit or variant body
ReadOps == {"deserialize_string", "deserialize_i32", "deserialize_unit", "deserialize_enum"}

\* the events are what the body of the last read consumes when it is decoded
\* in place: nothing or one text for a scalar, nothing for a unit, the element
\* of the selected variant for a variant
BodyInPlace(seq) ==
    CASE last.op \in {"deserialize_string", "deserialize_i32"} ->
            seq = <<>> \/ (Len(seq) = 1 /\ seq[1].kind = "Characters")
      [] last.op = "deserialize_unit" -> seq = <<>>
      [] last.op = "deserialize_enum" ->
            IsOneElement(seq) /\ seq[1].name.local_name = last.v.name

\* the events are a wrapping StartElement, the body decoded inside it, and
\* the EndElement matching the wrapping StartElement
BodyWrapped(seq) ==
    /\ Len(seq) >= 2
    /\ seq[1].kind = "StartElement"
    /\ seq[Len(seq)] = EndElement(seq[1].name)
    /\ BodyInPlace(SubSeq(seq, 2, Len(seq) - 1))

RecordOps == {"deserialize_struct", "deserialize_map"}

\* the result of the field resolution of the last record decode, which took
\* the StartElement the cursor delivered
FieldResolution ==
    IF last.op = "deserialize_struct"
    THEN VisitFields(next(unset_map_value(last.pre)).c, NextEv(last.pre).attributes,
                     last.arg.fields, 1, <<>>, HasValueField(last.arg.fields))
    ELSE AttrEntries(next(unset_map_value(last.pre)).c, NextEv(last.pre).attributes,
                     last.arg.of, <<>>)

\* C3: a record decode (deserialize_struct, deserialize_map) consumes one
\* StartElement, runs field resolution and then requires the end tag of that
\* element: it succeeds only if the event following the last event consumed
\* by field resolution is the EndElement matching the record's StartElement,
\* so that a child left unread there makes the decode fail.
C3_RecordEnd ==
    last.op \in RecordOps =>
        /\ last.st = "ok" =>
              /\ IsOneElement(New)
              /\ New[1] = NextEv(last.pre)
              /\ peeked = <<>>
        /\ (HasEvent(last.pre) /\ NextEv(last.pre).kind # "StartElement") =>
              /\ last.st = "err"
              /\ New = <<NextEv(last.pre)>>
        /\ (HasEvent(last.pre) /\ NextEv(last.pre).kind = "StartElement"
                /\ FieldResolution.st = "ok") =>
              /\ last.st = "ok" <=>
                    /\ HasEvent(FieldResolution.c)
                    /\ NextEv(FieldResolution.c) = EndElement(NextEv(last.pre).name)
              /\ HasEvent(FieldResolution.c) =>
                    taken = Append(FieldResolution.c.taken, NextEv(FieldResolution.c))

\* <a f="1"><f>2</f></a> decoded as a record with the single field f: the
\* child <f> is left unread and the decode has failed on it
C3_Witness ==
    /\ last.op = "deserialize_struct"
    /\ last.arg = TStruct(<<Field("f", TString)>>)
    /\ last.st = "err"
    /\ Consumed = 2
    /\ New[1].attributes # <<>>
    /\ New[2] = StartElement(N("f"), <<>>)

\* the value a text stands for in a destination of a scalar shape
RECURSIVE FromText(_, _)
FromText(ty, text) ==
    CASE ty.k = "string" -> StrV(text)
      [] ty.k = "i32" ->
            IF \E d \in 1..Len(Digits) : Digits[d] = text
            THEN IntV(CHOOSE d \in 1..Len(Digits) : Digits[d] = text)
            ELSE NoValue
      [] ty.k = "option" -> SomeV(FromText(ty.of, text))
      [] OTHER -> NoValue

\* the attributes of that local name, in the order of the start tag
AttrsNamed(attrs, name) == SelectSeq(attrs, LAMBDA a : a.name.local_name = name)

\* how many fields before the i-th are declared with the same name
Earlier(fields, i) == Cardinality({h \in 1..(i - 1) : fields[h].name = fields[i].name})

\* the i-th field request is answered by an attribute
FromAttribute(fields, attrs, i) ==
    Earlier(fields, i) < Len(AttrsNamed(attrs, fields[i].name))

\* C4: in a record decode every field request is answered from the attribute
\* list of the enclosing element before any child is examined; an attribute
\* answers at most one request; children are consulted, in document order,
\* only when no attribute matches.  For <a f="1"><f>2</f></a> and the single
\* declared field f the field takes "1" and, without a catch-all, the unread
\* child makes the decode fail at the enclosing end tag.
C4_AttributesFirst ==
    (last.op = "deserialize_struct" /\ HasEvent(last.pre)
        /\ NextEv(last.pre).kind = "StartElement") =>
        LET attrs == NextEv(last.pre).attributes
            fields == last.arg.fields
        IN  /\ last.st = "ok" =>
                  \A i \in 1..Len(fields) :
                      FromAttribute(fields, attrs, i) =>
                          last.v.entries[i] =
                              Entry(fields[i].name,
                                    FromText(fields[i].ty,
                                             AttrsNamed(attrs, fields[i].name)
                                                [Earlier(fields, i) + 1].value))
            /\ (\A i \in 1..Len(fields) : FromAttribute(fields, attrs, i)) =>
                  /\ Consumed <= 2
                  /\ last.st = "ok" => New = <<NextEv(last.pre),
                                               EndElement(NextEv(last.pre).name)>>
            /\ (doc = DocAttrChild /\ last.pre.taken = <<>>) =>
                  /\ fields = <<Field("f", TString)>> =>
                        /\ last.st = "err"
                        /\ last.kind = "UnexpectedToken"
                        /\ New = <<doc[2], doc[3]>>
                  /\ fields = <<Field("f", TString), Field("f", TString)>> =>
                        /\ last.st = "ok"
                        /\ last.v = MapV(<<Entry("f", StrV("1")), Entry("f", StrV("2"))>>)
                  /\ fields = <<Field("f", TString), Field("$value", TAny)>> =>
                        /\ last.st = "ok"
                        /\ last.v.entries[1] = Entry("f", StrV("1"))

\* <a f="1"><f>2</f></a> with f requested twice: the attribute has answered
\* the first request and the child the second
C4_Witness ==
    /\ last.op = "deserialize_struct"
    /\ doc = DocAttrChild
    /\ last.arg.fields = <<Field("f", TString), Field("f", TString)>>
    /\ last.st = "ok"
    /\ Consumed = 5

\* StartElements minus EndElements among the events i..j of the stream
RECURSIVE DocBalance(_, _)
DocBalance(i, j) ==
    IF j < i THEN 0
    ELSE DocBalance(i, j - 1)
         + (IF doc[j].kind = "StartElement" THEN 1
            ELSE IF doc[j].kind = "EndElement" THEN -1 ELSE 0)

\* the child starting at event i is complete in the stream up to event j
ClosedAt(i, j) ==
    /\ DocBalance(i, j) = 0
    /\ \A h \in i..j : doc[h].kind # "ReaderError"

\* index of the last event of the child (element or text) starting at event
\* i, 0 when the stream breaks off inside it
SubtreeEnd(i) ==
    IF \E j \in i..Len(doc) : ClosedAt(i, j)
    THEN CHOOSE j \in i..Len(doc) :
            ClosedAt(i, j) /\ \A h \in i..(j - 1) : ~ClosedAt(i, h)
    ELSE 0

\* C5: an Ignore request issued at a field position (the next event starts a
\* child: an element or a text) consumes events until depth is back at its
\* value at entry and leaves the cursor at the following sibling, however
\* deep the ignored subtree is: it consumes the whole subtree and no event
\* beyond it.
C5_Ignore ==
    (last.op = "deserialize_ignored_any" /\ HasEvent(last.pre)
        /\ NextEv(last.pre).kind \in {"StartElement", "Characters"}) =>
        IF SubtreeEnd(NextIdx(last.pre)) = 0
        THEN last.st = "err"
        ELSE /\ last.st = "ok"
             /\ IsOneNode(New)
             /\ New[1] = NextEv(last.pre)
             /\ depth = last.pre.depth
             /\ peeked = <<>>
             /\ ~is_map_value
             /\ NextIdx(Cursor) = FirstRelevant(SubtreeEnd(NextIdx(last.pre)) + 1)

\* the deepest subtree <x>..</x> has been ignored inside <a> and the cursor
\* is at its sibling <g>
C5_Witness ==
    /\ last.op = "deserialize_ignored_any"
    /\ last.st = "ok"
    /\ doc = NestDoc(MaxNest)
    /\ last.pre.depth = 1
    /\ Consumed = 2 * (MaxNest + 1) + 1
    /\ NextEv(Cursor) = StartElement(N("g"), <<>>)

\* C6: an Option read entered with is_map_value set never yields None: the
\* flag is cleared and the inner value decoded as Some.  Entered with the flag
\* unset it peeks: an EndElement yields None and no event is consumed; any
\* other event yields Some of the inner value decoded from that same position
\* (the Option step consumes nothing itself).  So <a><f/></a> decodes an
\* optional field f as Some("") and <a></a> decodes it as None.
C6_Option ==
    /\ last.op = "deserialize_option" =>
          /\ last.v # NoneV \/ ~last.pre.is_map_value
          /\ (last.pre.is_map_value /\ last.st = "ok") =>
                /\ last.v.t = "some"
                /\ ~is_map_value
                /\ New[1] = NextEv(last.pre)
                /\ New[Len(New)] = EndElement(New[1].name)
          /\ (~last.pre.is_map_value /\ ~HasEvent(last.pre)) =>
                last.st = (IF AtEnd(last.pre) THEN "hang" ELSE "err")
          /\ (~last.pre.is_map_value /\ HasEvent(last.pre)) =>
                IF NextEv(last.pre).kind = "EndElement"
                THEN /\ last.st = "ok"
                     /\ last.v = NoneV
                     /\ NothingConsumed
                     /\ peeked = <<NextEv(last.pre)>>
                ELSE /\ last.v # NoneV
                     /\ last.st = Deserialize(last.arg.of, last.pre).st
                     /\ taken = Deserialize(last.arg.of, last.pre).c.taken
                     /\ last.st = "ok" =>
                            last.v = SomeV(Deserialize(last.arg.of, last.pre).v)
    /\ (last.op = "deserialize_struct" /\ last.pre.taken = <<>>
            /\ last.arg.fields = <<Field("f", TOption(TString))>>) =>
          /\ doc = DocEmptyChild =>
                last.st = "ok" /\ last.v = MapV(<<Entry("f", SomeV(StrV("")))>>)
          /\ doc = DocEmpty =>
                last.st = "ok" /\ last.v = MapV(<<Entry("f", NoneV)>>)

\* an Option read entered with the flag set at the empty element <f/> has
\* yielded Some("")
C6_Witness ==
    /\ last.op = "deserialize_option"
    /\ last.pre.is_map_value
    /\ last.st = "ok"
    /\ last.v = SomeV(StrV(""))
    /\ Consumed = 2

\* C7: a scalar read with no wrapping element pending (is_map_value unset): at
\* an EndElement it yields the empty text and consumes nothing, the EndElement
\* staying next; otherwise it consumes exactly one event, which must be a
\* Characters event whose text is the result, and fails with a mismatch error
\* when that event is anything else.
C7_Scalar ==
    (last.op = "deserialize_string" /\ ~last.pre.is_map_value /\ HasEvent(last.pre)) =>
        IF NextEv(last.pre).kind = "EndElement"
        THEN /\ last.st = "ok"
             /\ last.v = StrV("")
             /\ NothingConsumed
             /\ peeked = <<NextEv(last.pre)>>
        ELSE /\ New = <<NextEv(last.pre)>>
             /\ peeked = <<>>
             /\ IF NextEv(last.pre).kind = "Characters"
                THEN last.st = "ok" /\ last.v = StrV(NextEv(last.pre).text)
                ELSE last.st = "err" /\ last.kind = "UnexpectedToken"

\* a scalar read at an EndElement has yielded the empty text and left the
\* EndElement in the lookahead
C7_Witness ==
    /\ last.op = "deserialize_string"
    /\ ~last.pre.is_map_value
    /\ last.st = "ok"
    /\ last.v = StrV("")
    /\ peeked # <<>>
    /\ peeked[1].kind = "EndElement"

\* the document is a root element without attributes and without children
RootIsEmpty ==
    /\ FirstRelevant(1) < Len(doc)
    /\ doc[FirstRelevant(1)].kind = "StartElement"
    /\ doc[FirstRelevant(1)].attributes = <<>>
    /\ doc[FirstRelevant(FirstRelevant(1) + 1)] = EndElement(doc[FirstRelevant(1)].name)

\* C8: decoding a Unit destination from a document whose root element has no
\* attributes and no children succeeds and consumes exactly two events, the
\* StartElement and the EndElement of the root, so that depth is back at 0.
C8_RootUnit ==
    (last.op = "deserialize_unit" /\ last.pre.reader = 1 /\ last.pre.taken = <<>>
        /\ last.pre.peeked = <<>> /\ ~last.pre.is_map_value /\ RootIsEmpty) =>
        /\ last.st = "ok"
        /\ Consumed = 2
        /\ New = <<doc[FirstRelevant(1)], EndElement(doc[FirstRelevant(1)].name)>>
        /\ depth = 0
        /\ peeked = <<>>

\* index of the last event of the first child of a sequence of events, 0 when
\* the sequence does not start with a complete child
FirstNodeEnd(seq) ==
    IF /\ seq # <<>>
       /\ seq[1].kind \in {"StartElement", "Characters"}
       /\ \E k \in 1..Len(seq) : Balance(seq, k) = 0
    THEN CHOOSE k \in 1..Len(seq) :
            Balance(seq, k) = 0 /\ \A h \in 1..(k - 1) : Balance(seq, h) # 0
    ELSE 0

\* the number of children (elements or texts) a sequence of events consists
\* of, -1 when it is not a sequence of complete children
RECURSIVE Nodes(_)
Nodes(seq) ==
    IF seq = <<>> THEN 0
    ELSE IF FirstNodeEnd(seq) = 0 THEN -1
    ELSE LET rest == Nodes(SubSeq(seq, FirstNodeEnd(seq) + 1, Len(seq)))
         IN  IF rest < 0 THEN -1 ELSE rest + 1

SeqOps == {"deserialize_seq", "deserialize_seq_fixed_size"}

\* the record a with the one field i of that shape
ItemsOf(ty) == TStruct(<<Field("i", ty)>>)

VariantEvents == IF last.pre.is_map_value THEN SubSeq(New, 2, Len(New) - 1) ELSE New

\* index in the stream of the event the variant visitor peeks at
VariantIdx ==
    IF last.pre.is_map_value
    THEN FirstRelevant(NextIdx(last.pre) + 1)
    ELSE NextIdx(last.pre)

\* the event the variant visitor peeks at is there
HasVariantEvent ==
    /\ HasEvent(last.pre)
    /\ last.pre.is_map_value => NextEv(last.pre).kind = "StartElement"
    /\ VariantIdx <= Len(doc)
    /\ doc[VariantIdx].kind # "ReaderError"

Declared(variants, name) == \E j \in 1..Len(variants) : variants[j].name = name

Filtered == SelectSeq(doc, LAMBDA e : e.kind \notin Skipped)

\* how many of them the reader has delivered
Delivered == Len(SelectSeq(SubSeq(doc, 1, reader - 1), LAMBDA e : e.kind \notin Skipped))

\* the stream is a whole well-formed document: no error, every end tag closes
\* the element open at that point, nothing is left open
WellFormed ==
    /\ \A j \in 1..Len(doc) : doc[j].kind # "ReaderError" /\ DocBalance(1, j) >= 0
    /\ DocBalance(1, Len(doc)) = 0

\* C11: in every state depth is the number of StartElement events next has
\* returned minus the number of EndElement events next has returned; an event
\* that is only in the lookahead is not counted (peek leaves depth alone);
\* depth is never below 0; and once every event of a well-formed document has
\* been returned by next depth is 0.
C11_Depth ==
    /\ depth = Balance(taken, Len(taken))
    /\ depth >= 0
    /\ last.op = "peek" => depth = last.pre.depth
    /\ (last.op = "next" /\ last.st = "ok") =>
          depth = last.pre.depth
                  + (IF last.v.kind = "StartElement" THEN 1
                     ELSE IF last.v.kind = "EndElement" THEN -1 ELSE 0)
    /\ (WellFormed /\ taken = Filtered) => depth = 0 /\ peeked = <<>>

\* next has returned the last event of the deepest document, from depth 1
C11_Witness ==
    /\ doc = NestDoc(MaxNest)
    /\ taken = Filtered
    /\ last.op = "next"
    /\ last.pre.depth = 1
    /\ depth = 0

\* C12: peek does not consume.  It returns the event the cursor delivers next
\* and keeps it in the lookahead; depth, the events taken and the flag stay as
\* they are, and a peek that finds the lookahead filled changes nothing at
\* all, so that consecutive peeks return the same event.  The next call of
\* next returns that event and empties the lookahead.  The events returned by
\* next are, in order, the filtered source stream from its beginning: every
\* event the reader has delivered and inner_next has not skipped is either
\* among them or, the latest one, in the lookahead.
C12_Peek ==
    /\ (last.op = "peek" /\ last.st = "ok") =>
          /\ last.v = NextEv(last.pre)
          /\ peeked = <<last.v>>
          /\ NothingConsumed
          /\ is_map_value = last.pre.is_map_value
    /\ (last.op = "peek" /\ last.pre.peeked # <<>>) =>
          last.st = "ok" /\ Cursor = last.pre
    /\ (last.op = "next" /\ last.pre.peeked # <<>>) =>
          /\ last.st = "ok"
          /\ last.v = last.pre.peeked[1]
          /\ peeked = <<>>
          /\ reader = last.pre.reader
          /\ taken = Append(last.pre.taken, last.v)
    /\ Len(taken) <= Len(Filtered)
    /\ taken = SubSeq(Filtered, 1, Len(taken))
    /\ Len(taken) + Len(peeked) = Delivered
    /\ peeked # <<>> => peeked[1] = Filtered[Len(taken) + 1]

\* every event of the document with the comments and processing instructions
\* has been returned by next, the last one after a peek
C12_Witness ==
    /\ doc = DocNoise
    /\ taken = Filtered
    /\ last.op = "next"
    /\ last.pre.peeked # <<>>

\* C13: peek and next never return a StartDocument, EndDocument,
\* ProcessingInstruction or Comment event: a fresh read passes every such
\* event of the source and returns the first event of another kind after
\* them, so that neither the lookahead nor the events handed to the requests
\* ever hold one.
C13_Skipped ==
    /\ (last.op \in {"peek", "next"} /\ last.st = "ok") =>
          /\ last.v.kind \notin Skipped
          /\ last.pre.peeked = <<>> =>
                /\ last.v = doc[FirstRelevant(last.pre.reader)]
                /\ reader = FirstRelevant(last.pre.reader) + 1
    /\ peeked # <<>> => peeked[1].kind \notin Skipped
    /\ \A k \in 1..Len(taken) : taken[k].kind \notin Skipped

\* a peek has passed a comment and a processing instruction and returned the
\* start tag after them
C13_Witness ==
    /\ last.op = "peek"
    /\ last.st = "ok"
    /\ last.pre.peeked = <<>>
    /\ doc[last.pre.reader].kind = "Comment"
    /\ doc[last.pre.reader + 1].kind = "ProcessingInstruction"
    /\ reader = last.pre.reader + 3
    /\ last.v.kind = "StartElement"

\* the requests of the Deserializer
Requests ==
    {"deserialize_string", "deserialize_i32", "deserialize_unit",
     "deserialize_option", "deserialize_struct", "deserialize_map",
     "deserialize_enum", "deserialize_seq", "deserialize_seq_fixed_size",
     "deserialize_ignored_any", "deserialize"}

\* the shape the untyped request decodes for an event of that kind
UntypedShape(kind) ==
    IF kind = "StartElement" THEN TMap(TAny)
    ELSE IF kind = "EndElement" THEN TUnit
    ELSE TString

\* the last operation has returned what r is and left the cursor where r does
SameAs(r) ==
    /\ last.st = r.st
    /\ last.kind = r.kind
    /\ last.v = r.v
    /\ last.errors = r.c.errors
    /\ Cursor = [r.c EXCEPT !.errors = <<>>]

\* C14: the untyped request peeks, consuming nothing itself, and decides by
\* the kind of the peeked event alone: at a StartElement it does what a map
\* request does there, at an EndElement what a unit request does, at any
\* other event what a scalar request does.  So (no wrapping element pending)
\* an element becomes a map and is consumed whole, an EndElement becomes the
\* unit and stays in the lookahead, a text becomes that text.
C14_Untyped ==
    last.op = "deserialize" =>
        IF HasEvent(last.pre)
        THEN /\ SameAs(Deserialize(UntypedShape(NextEv(last.pre).kind), last.pre))
             /\ (NextEv(last.pre).kind = "StartElement" /\ last.st = "ok") =>
                   /\ last.v.t = "map"
                   /\ IsOneElement(New)
                   /\ New[1] = NextEv(last.pre)
             /\ (NextEv(last.pre).kind = "EndElement" /\ ~last.pre.is_map_value) =>
                   /\ last.st = "ok"
                   /\ last.v = UnitV
                   /\ NothingConsumed
                   /\ peeked = <<NextEv(last.pre)>>
             /\ (NextEv(last.pre).kind = "Characters" /\ ~last.pre.is_map_value) =>
                   /\ last.st = "ok"
                   /\ last.v = StrV(NextEv(last.pre).text)
                   /\ New = <<NextEv(last.pre)>>
        ELSE last.st \in {"err", "hang"} /\ NothingConsumed

\* the untyped request at the root of <a f="1"><f>2</f></a> has decoded the
\* element as a map, the child f as a map in it and the text as a scalar
C14_Witness ==
    /\ last.op = "deserialize"
    /\ doc = DocAttrChild
    /\ last.pre.taken = <<>>
    /\ last.st = "ok"
    /\ last.v = MapV(<<Entry("f", StrV("1")),
                       Entry("f", MapV(<<Entry("$value", StrV("2"))>>))>>)

\* C15: when an error is raised anywhere inside a request, by a cursor
\* operation or by a nested request, the request returns an error, and it is
\* the only one raised: nothing is retried, no event is taken and the reader
\* is not pulled after it, and no value is returned.  A request returns an
\* error only when one was raised inside it.
C15_ErrorsAbort ==
    /\ last.errors # <<>> =>
          /\ last.st = "err"
          /\ Len(last.errors) = 1
          /\ last.errors[1] = <<Len(taken), reader>>
          /\ last.v = NoValue
    /\ last.st = "err" => last.errors # <<>>

\* a record decode has failed with the syntax error the reader returned to
\* the end-tag check of the scalar read of its field
C15_Witness ==
    /\ last.op = "deserialize_struct"
    /\ last.st = "err"
    /\ last.kind = "Syntax"
    /\ Consumed = 3

\* C16: a scalar, unit, variant, record, map or ignore request, and an option
\* request entered with is_map_value set, clears the flag on entry: whatever
\* the request returns (a value, an error, or nothing) the flag is unset
\* afterwards, the flags set for the reads nested in it having been cleared
\* by those reads, so that the read that follows is not influenced by it.
C16_OneShot ==
    (\/ last.op \in Requests \ {"deserialize_option", "deserialize_seq",
                                 "deserialize_seq_fixed_size", "deserialize"}
     \/ last.op = "deserialize_option" /\ last.pre.is_map_value) =>
        ~is_map_value

\* a record decode entered with the flag set has decoded its child f, for
\* which the flag was set again, and left the flag unset
C16_Witness ==
    /\ last.op = "deserialize_struct"
    /\ last.pre.is_map_value
    /\ last.arg = TStruct(<<Field("f", TString)>>)
    /\ last.st = "ok"
    /\ Consumed = 4
    /\ ~is_map_value

C18_DepthRestored ==
    (last.op \in Requests /\ last.st = "ok") =>
        /\ depth = last.pre.depth
        /\ Balance(New, Len(New)) = 0

\* a sequence decode entered with the flag set has consumed all the children
\* i of a and is back at depth 1
C18_Witness ==
    /\ last.op = "deserialize_seq"
    /\ last.pre.is_map_value
    /\ last.pre.depth = 1
    /\ last.st = "ok"
    /\ Consumed = 3 * MaxItems
    /\ depth = 1

\* the request traced step by step returns what the request computed at once
\* returns
IgnoreAgrees ==
    (pc = "idle" /\ last.op = "deserialize_ignored_any") =>
        SameAs(deserialize_ignored_any(last.pre))

\* the request traced step by step is where the loop cannot be left any more
\* only when the request computed at once does not return
IgnoreStuck ==
    (pc # "idle" /\ reader > Len(doc) /\ peeked = <<>>) =>
        deserialize_ignored_any(last.pre).st = "hang"

\* C19: an Ignore request issued where the next event of a well-formed
\* document is a StartElement, a Characters event or an EndElement
\* terminates: it gets back to the depth at entry and returns, or it returns
\* an error.
C19_IgnoreTerminates ==
    (pc # "idle" /\ WellFormed /\ HasEvent(last.pre)) ~> (pc = "idle")

====
